---------------------------- MODULE Spec2Model ----------------------------
(***************************************************************************)
(* Curve filling of a discount-rate term structure                          *)
(* (calibration/interpolation.py): interpolate_rate, extrapolate_early and  *)
(* extrapolate_late, each a function from a term-structure table and a      *)
(* target to the table with at most one row appended.  The state machine is *)
(* a caller that holds one table and feeds each call's result to the next.  *)
(*                                                                          *)
(* Numbers.  The table's numeric cells are numpy scalars.  A float is       *)
(* modelled as a pair <<n, d>>: an exact fraction n/d in lowest terms when  *)
(* d > 0, and the three IEEE specials when d = 0: <<1,0>> is +inf,          *)
(* <<-1,0>> is -inf and <<0,0>> is NaN, which is also pandas' "no value"    *)
(* of a float column.  Rounding of binary floating point is not modelled.   *)
(*                                                                          *)
(* Rows.  A row carries days, discount_rate, method, reference_price and    *)
(* forward_ratio.  expiry_date and years are copied from the arguments into *)
(* the new row and read nowhere, and the seven option-market columns are    *)
(* always None in a new row; they are left out.                             *)
(***************************************************************************)
EXTENDS Integers, Sequences, FiniteSets, TLC

\* Bounds of the model.
MaxDays == 4      \* observed rows have days in 1..MaxDays, targets in 0..MaxDays+1
MaxRows == 2      \* rows of the table the caller starts from
MaxCalls == 2     \* calls the caller chains

----------------------------------------------------------------------------
\* Floats

RECURSIVE Gcd(_, _)
Gcd(a, b) == IF b = 0 THEN a ELSE Gcd(b, a % b)

Abs(n) == IF n < 0 THEN -n ELSE n

Sign(n) == IF n < 0 THEN -1 ELSE IF n > 0 THEN 1 ELSE 0

\* The float n/d, for d > 0.
Rat(n, d) == LET g == Gcd(Abs(n), d) IN <<n \div g, d \div g>>

FromInt(k) == <<k, 1>>

NaN == <<0, 0>>

Inf(s) == <<s, 0>>

IsNaN(x) == x = NaN

IsFinite(x) == x[2] > 0

Neg(x) == <<-x[1], x[2]>>

\* x + y
Add(x, y) ==
    IF IsNaN(x) \/ IsNaN(y) THEN NaN
    ELSE IF ~IsFinite(x) /\ ~IsFinite(y) THEN (IF x = y THEN x ELSE NaN)
    ELSE IF ~IsFinite(x) THEN x
    ELSE IF ~IsFinite(y) THEN y
    ELSE Rat(x[1] * y[2] + y[1] * x[2], x[2] * y[2])

\* x - y
Sub(x, y) == Add(x, Neg(y))

\* x * y
Mul(x, y) ==
    IF IsNaN(x) \/ IsNaN(y) THEN NaN
    ELSE IF IsFinite(x) /\ IsFinite(y) THEN Rat(x[1] * y[1], x[2] * y[2])
    ELSE IF x[1] = 0 \/ y[1] = 0 THEN NaN
    ELSE Inf(Sign(x[1]) * Sign(y[1]))

\* x / k for a float x and an integer k (numpy true division: a zero
\* divisor gives +-inf or NaN and a warning, not an exception).
DivInt(x, k) ==
    IF IsNaN(x) THEN NaN
    ELSE IF k = 0 THEN Inf(Sign(x[1]))
    ELSE IF ~IsFinite(x) THEN Inf(Sign(x[1]) * Sign(k))
    ELSE Rat(Sign(k) * x[1], x[2] * Abs(k))

\* x < y; False when either is NaN.
Lt(x, y) ==
    /\ ~IsNaN(x)
    /\ ~IsNaN(y)
    /\ x # y
    /\ IF IsFinite(x) /\ IsFinite(y) THEN x[1] * y[2] < y[1] * x[2]
       ELSE IF ~IsFinite(x) THEN x[1] < 0
       ELSE y[1] > 0

Gt(x, y) == Lt(y, x)

\* Python's max(x, y) and min(x, y): the first argument unless the second
\* compares strictly beyond it, so a NaN second argument is dropped.
PyMax(x, y) == IF Gt(y, x) THEN y ELSE x

PyMin(x, y) == IF Lt(y, x) THEN y ELSE x

----------------------------------------------------------------------------
\* Configuration

DEFAULT_PARAMS ==
    [min_options_per_expiry |-> 2, min_rate |-> Rat(0, 1), max_rate |-> Rat(1, 5)]

\* params = DEFAULT_PARAMS.copy(); params.update(kwargs)
Params(kwargs) ==
    [k \in DOMAIN DEFAULT_PARAMS |->
        IF k \in DOMAIN kwargs THEN kwargs[k] ELSE DEFAULT_PARAMS[k]]

----------------------------------------------------------------------------
\* Tables

OptionalColumns == {"reference_price", "forward_ratio"}

\* The index set of a table, and the days of its rows.
Index(df) == 1 .. Len(df)

\* row[column], defined when the table has the column
Cell(row, column) ==
    IF column = "reference_price" THEN row.reference_price ELSE row.forward_ratio

\* 'column' in row: a row of a DataFrame is a Series indexed by the
\* DataFrame's columns, so the test is on the columns, not on the cell.
HasKey(cols, column) == column \in cols

\* Python's None, the value of reference_price and forward_ratio in the
\* body of an operation until one is computed.
None == <<>>

\* The row the DataFrame holds for new_row: a key that new_row does not set
\* is NaN in a column the table has.
NewRow(days, rate, method, reference_price, forward_ratio) ==
    [days |-> days, discount_rate |-> rate, method |-> method,
     reference_price |-> IF reference_price = None THEN NaN ELSE reference_price,
     forward_ratio |-> IF forward_ratio = None THEN NaN ELSE forward_ratio]

\* Mutant: the new row is put in front of the table.
Concat_front(df, new_row) == <<new_row>> \o df

\* pd.concat([df, pd.DataFrame([new_row])], ignore_index=True)
Concat(df, new_row) == Append(df, new_row)

\* The outcome of one call: what it returned (or raised), the table it
\* returned and the indices in df of the two rows it estimated from.
Unchanged(df) == [result |-> "unchanged", df |-> df, basis |-> <<0, 0>>]

Raised(df, error) == [result |-> error, df |-> df, basis |-> <<0, 0>>]

Appended(df, new_row, i, j) ==
    [result |-> "appended", df |-> Concat(df, new_row), basis |-> <<i, j>>]

----------------------------------------------------------------------------
\* interpolate_rate

\* df[df['days'] < days] and df[df['days'] > days], as sets of indices
before_df(df, days) == {i \in Index(df) : df[i].days < days}

after_df(df, days) == {i \in Index(df) : df[i].days > days}

\* Mutant: the predecessors are sorted ascending, so the farthest is taken.
Farthest_before(df, days) ==
    {i \in before_df(df, days) :
        \A j \in before_df(df, days) : df[j].days >= df[i].days}

\* .sort_values('days', ascending=False).iloc[0]: a row of the greatest days.
\* The sort is not stable, so among rows of equal days any may come first.
Closest_before(df, days) ==
    {i \in before_df(df, days) :
        \A j \in before_df(df, days) : df[j].days <= df[i].days}

\* .sort_values('days').iloc[0]: a row of the least days.
Closest_after(df, days) ==
    {i \in after_df(df, days) :
        \A j \in after_df(df, days) : df[j].days >= df[i].days}

\* days_frac = (days - before['days']) / days_range
days_frac(days, before, after) ==
    DivInt(FromInt(days - before.days), after.days - before.days)

\* x + days_frac * (y - x)
Interpolated(x, y, frac) == Add(x, Mul(frac, Sub(y, x)))

\* reference_price / forward_ratio of interpolate_rate
InterpolatedOptional(cols, column, before, after, frac) ==
    IF HasKey(cols, column)
    THEN Interpolated(Cell(before, column), Cell(after, column), frac)
    ELSE None

interpolate_row(cols, days, before, after) ==
    LET frac == days_frac(days, before, after)
    IN  NewRow(days,
               Interpolated(before.discount_rate, after.discount_rate, frac),
               "interpolated",
               InterpolatedOptional(cols, "reference_price", before, after, frac),
               InterpolatedOptional(cols, "forward_ratio", before, after, frac))

interpolate_rate(df, cols, days) ==
    IF before_df(df, days) = {} \/ after_df(df, days) = {}
    THEN {Unchanged(df)}
    ELSE {Appended(df, interpolate_row(cols, days, df[b], df[a]), b, a) :
            <<b, a>> \in Closest_before(df, days) \X Closest_after(df, days)}

----------------------------------------------------------------------------
\* extrapolate_early

\* Mutant: the threshold is read from the defaults, not from the overrides.
TooFewRows_default(df, kwargs) == Len(df) < DEFAULT_PARAMS.min_options_per_expiry

\* len(df) < params['min_options_per_expiry']
TooFewRows(df, kwargs) == Len(df) < Params(kwargs).min_options_per_expiry

\* df.sort_values('days').iloc[0] and .iloc[1]: the first two rows of one
\* ordering of the table by days, as a pair of indices.
FirstTwo(df) ==
    {<<i, j>> \in Index(df) \X Index(df) :
        /\ i # j
        /\ \A k \in Index(df) : df[i].days <= df[k].days
        /\ \A k \in Index(df) \ {i} : df[j].days <= df[k].days}

\* first[v] - (first['days'] - days) * ((second[v] - first[v]) / days_diff)
EarlyProjection(x1, x2, first, second, days) ==
    Sub(x1, Mul(FromInt(first.days - days),
                DivInt(Sub(x2, x1), second.days - first.days)))

\* Mutant: the early rate is clamped to the band of the late rate.
EarlyRate_banded(first, second, days) ==
    PyMax(Rat(0, 1),
          PyMin(Rat(1, 5),
                EarlyProjection(first.discount_rate, second.discount_rate,
                                first, second, days)))

\* extrapolated_rate = max(0.0, extrapolated_rate)
EarlyRate(first, second, days) ==
    PyMax(Rat(0, 1),
          EarlyProjection(first.discount_rate, second.discount_rate,
                          first, second, days))

\* reference_price / forward_ratio of extrapolate_early
EarlyOptional(cols, column, first, second, days) ==
    IF HasKey(cols, column)
    THEN PyMax(Rat(0, 1),
               EarlyProjection(Cell(first, column), Cell(second, column),
                               first, second, days))
    ELSE None

early_row(cols, days, first, second) ==
    NewRow(days, EarlyRate(first, second, days), "extrapolated",
           EarlyOptional(cols, "reference_price", first, second, days),
           EarlyOptional(cols, "forward_ratio", first, second, days))

extrapolate_early(df, cols, days, kwargs) ==
    IF TooFewRows(df, kwargs) THEN {Unchanged(df)}
    ELSE IF FirstTwo(df) = {} THEN {Raised(df, "IndexError")}
    ELSE {Appended(df, early_row(cols, days, df[p[1]], df[p[2]]), p[1], p[2]) :
            p \in FirstTwo(df)}

----------------------------------------------------------------------------
\* extrapolate_late

\* df.sort_values('days', ascending=False).iloc[0] and .iloc[1]
LastTwo(df) ==
    {<<i, j>> \in Index(df) \X Index(df) :
        /\ i # j
        /\ \A k \in Index(df) : df[i].days >= df[k].days
        /\ \A k \in Index(df) \ {i} : df[j].days >= df[k].days}

\* last[v] + (days - last['days']) * ((last[v] - second_last[v]) / days_diff)
LateProjection(x1, x2, last, second_last, days) ==
    Add(x1, Mul(FromInt(days - last.days),
                DivInt(Sub(x1, x2), last.days - second_last.days)))

\* Mutant: the band is the configured [min_rate, max_rate].
LateRate_configured(last, second_last, days, kwargs) ==
    PyMax(Params(kwargs).min_rate,
          PyMin(Params(kwargs).max_rate,
                LateProjection(last.discount_rate, second_last.discount_rate,
                               last, second_last, days)))

\* extrapolated_rate = max(0.0, min(0.2, extrapolated_rate))
LateRate(last, second_last, days, kwargs) ==
    PyMax(Rat(0, 1),
          PyMin(Rat(1, 5),
                LateProjection(last.discount_rate, second_last.discount_rate,
                               last, second_last, days)))

\* Mutant: the late projection is floored at zero, as the early one is.
LateOptional_zero_floor(cols, column, last, second_last, days) ==
    IF HasKey(cols, column)
    THEN PyMax(Rat(0, 1),
               LateProjection(Cell(last, column), Cell(second_last, column),
                              last, second_last, days))
    ELSE None

\* reference_price / forward_ratio of extrapolate_late
LateOptional(cols, column, last, second_last, days) ==
    IF HasKey(cols, column)
    THEN PyMax(Cell(last, column),
               LateProjection(Cell(last, column), Cell(second_last, column),
                              last, second_last, days))
    ELSE None

late_row(cols, days, last, second_last, kwargs) ==
    NewRow(days, LateRate(last, second_last, days, kwargs), "extrapolated",
           LateOptional(cols, "reference_price", last, second_last, days),
           LateOptional(cols, "forward_ratio", last, second_last, days))

extrapolate_late(df, cols, days, kwargs) ==
    IF TooFewRows(df, kwargs) THEN {Unchanged(df)}
    ELSE IF LastTwo(df) = {} THEN {Raised(df, "IndexError")}
    ELSE {Appended(df, late_row(cols, days, df[p[1]], df[p[2]], kwargs), p[1], p[2]) :
            p \in LastTwo(df)}

----------------------------------------------------------------------------
\* The caller

VARIABLES
    df,        \* the table the caller holds
    columns,   \* which of the optional columns the table has
    df0,       \* the table the caller started from
    call,      \* the last call: operation, arguments (df, days, kwargs), outcome
    ncalls,    \* calls made
    nappended  \* calls that returned a longer table

vars == <<df, columns, df0, call, ncalls, nappended>>

\* Cells of the table the caller starts from.
RateValues == {Rat(0, 1), Rat(1, 10), Rat(3, 10)}

ReferencePrices == {NaN, FromInt(10), FromInt(100)}

ForwardRatios == {NaN, FromInt(1), FromInt(2)}

ObservedRows(cols, rates, prices, ratios) ==
    [days : 1 .. MaxDays,
     discount_rate : rates,
     method : {"observed"},
     reference_price : IF "reference_price" \in cols THEN prices ELSE {NaN},
     forward_ratio : IF "forward_ratio" \in cols THEN ratios ELSE {NaN}]

\* Tables of observed rows, in ascending order of days, no days twice.
ObservedTables(cols, rates, prices, ratios) ==
    UNION {{t \in [1 .. n -> ObservedRows(cols, rates, prices, ratios)] :
                \A i \in 1 .. n - 1 : t[i].days < t[i + 1].days} :
           n \in 0 .. MaxRows}

TargetDays == 0 .. MaxDays + 1

NoKwargs == [x \in {} |-> 0]

\* The keyword arguments a caller passes to an extrapolator.
KwargsChoices ==
    {NoKwargs,
     [min_options_per_expiry |-> 0],
     [min_options_per_expiry |-> 1, min_rate |-> Rat(1, 20), max_rate |-> Rat(1, 10)],
     [min_options_per_expiry |-> MaxRows + 1]}

NoCall ==
    [op |-> "none", df |-> <<>>, days |-> 0, kwargs |-> NoKwargs,
     result |-> "none", basis |-> <<0, 0>>]

Start(tables) ==
    /\ df \in tables
    /\ df0 = df
    /\ call = NoCall
    /\ ncalls = 0
    /\ nappended = 0

\* The caller takes the outcome of a call: the returned table replaces the
\* one it holds; an exception leaves it with the table it passed.
Returns(op, days, kwargs, outcome) ==
    /\ df' = outcome.df
    /\ call' = [op |-> op, df |-> df, days |-> days, kwargs |-> kwargs,
                result |-> outcome.result, basis |-> outcome.basis]
    /\ ncalls' = ncalls + 1
    /\ nappended' = IF outcome.result = "appended" THEN nappended + 1 ELSE nappended
    /\ UNCHANGED <<columns, df0>>

InterpolateRate(limit) ==
    /\ ncalls < limit
    /\ \E days \in TargetDays :
        \E outcome \in interpolate_rate(df, columns, days) :
            Returns("interpolate_rate", days, NoKwargs, outcome)

ExtrapolateEarly(limit) ==
    /\ ncalls < limit
    /\ \E days \in TargetDays, kwargs \in KwargsChoices :
        \E outcome \in extrapolate_early(df, columns, days, kwargs) :
            Returns("extrapolate_early", days, kwargs, outcome)

ExtrapolateLate(limit) ==
    /\ ncalls < limit
    /\ \E days \in TargetDays, kwargs \in KwargsChoices :
        \E outcome \in extrapolate_late(df, columns, days, kwargs) :
            Returns("extrapolate_late", days, kwargs, outcome)

\* A caller that chains up to MaxCalls calls, each on the previous result,
\* from a table with or without reference prices.
Init ==
    /\ columns \in {{}, {"reference_price"}}
    /\ Start(ObservedTables(columns, {Rat(0, 1), Rat(3, 10)},
                            {NaN, FromInt(100)}, {NaN}))

Next ==
    \/ InterpolateRate(MaxCalls)
    \/ ExtrapolateEarly(MaxCalls)
    \/ ExtrapolateLate(MaxCalls)

Spec == Init /\ [][Next]_vars

\* One call of one operation, on every table of observed rows.
InitCall ==
    /\ columns \in SUBSET OptionalColumns
    /\ Start(ObservedTables(columns, RateValues, ReferencePrices, ForwardRatios))

NextCall ==
    \/ InterpolateRate(1)
    \/ ExtrapolateEarly(1)
    \/ ExtrapolateLate(1)

SpecCall == InitCall /\ [][NextCall]_vars

\* A caller that chains one call more, from a table without the optional
\* columns.
InitDeep ==
    /\ columns = {}
    /\ Start(ObservedTables(columns, {Rat(0, 1), Rat(3, 10)}, {NaN}, {NaN}))

NextDeep ==
    \/ InterpolateRate(MaxCalls + 1)
    \/ ExtrapolateEarly(MaxCalls + 1)
    \/ ExtrapolateLate(MaxCalls + 1)

SpecDeep == InitDeep /\ [][NextDeep]_vars

----------------------------------------------------------------------------
\* Properties

Zero == Rat(0, 1)

OneFifth == Rat(1, 5)

Extrapolators == {"extrapolate_early", "extrapolate_late"}

\* The last call returned its table with a row appended / as it was passed.
AppendedBy(op) == call.op = op /\ call.result = "appended"

ReturnedUnchanged == call.result = "unchanged" /\ df = call.df

\* The row the last call appended and the two rows it estimated from.
Synthesized == df[Len(df)]

BasisRow(n) == call.df[call.basis[n]]

\* The threshold in force in the last call: the override, or the default 2.
MinOptions ==
    IF "min_options_per_expiry" \in DOMAIN call.kwargs
    THEN call.kwargs.min_options_per_expiry
    ELSE 2

\* x lies between y and z, bounds included.
Between(x, y, z) ==
    /\ ~IsNaN(x)
    /\ \/ ~Lt(x, y) /\ ~Gt(x, z)
       \/ ~Lt(x, z) /\ ~Gt(x, y)

\* x + (days - a.days) * (x - y) / (a.days - b.days): the value x of row
\* a, moved along the line through the value y of row b to days.
LineAt(days, a, x, b, y) ==
    Add(x, Mul(FromInt(days - a.days), DivInt(Sub(x, y), a.days - b.days)))

\* C1: every step of the caller keeps the rows it held, in order and with
\* their content, and adds at most one row after them; the rows of the
\* initial table stay a prefix of the table, and the table has grown by
\* exactly the number of calls that returned a longer table.
C1_RowsKept ==
    [][/\ Len(df') \in {Len(df), Len(df) + 1}
       /\ SubSeq(df', 1, Len(df)) = df
       /\ SubSeq(df', 1, Len(df0')) = df0'
       /\ Len(df') = Len(df0') + nappended'
       /\ nappended' - nappended = Len(df') - Len(df)]_vars

C1_Witness ==
    /\ ncalls = 2
    /\ nappended = 2
    /\ Len(df0) >= 2
    /\ df = df0 \o <<df[Len(df) - 1], df[Len(df)]>>

\* C2: interpolate_rate with no row below the target or no row above it,
\* and either extrapolator with fewer rows than min_options_per_expiry,
\* returns the table as passed and raises nothing.
C2_InsufficientData ==
    /\ ( /\ call.op = "interpolate_rate"
         /\ \/ \A i \in Index(call.df) : ~(call.df[i].days < call.days)
            \/ \A i \in Index(call.df) : ~(call.df[i].days > call.days) )
       => ReturnedUnchanged
    /\ (call.op \in Extrapolators /\ Len(call.df) < MinOptions)
       => ReturnedUnchanged

C2_Witness ==
    /\ call.op = "extrapolate_late"
    /\ Len(call.df) = MaxRows
    /\ MinOptions > MaxRows
    /\ ReturnedUnchanged

\* C3: an extrapolator called on a table of fewer than two rows returns the
\* table as passed, whatever min_options_per_expiry is.
C3_FewerThanTwoRows ==
    (call.op \in Extrapolators /\ Len(call.df) < 2) => ReturnedUnchanged

\* Rows i and j are the two highest-days rows of the table passed.
TwoHighest(i, j) ==
    /\ i # j
    /\ \A k \in Index(call.df) : call.df[i].days >= call.df[k].days
    /\ \A k \in Index(call.df) \ {i} : call.df[j].days >= call.df[k].days

\* C4: the rate of a row appended by extrapolate_late lies in [0, 0.2]: it
\* is the line through the two highest-days rows read at the target when
\* that lies in the band, 0.2 when it is above and 0 when it is below,
\* whatever min_rate and max_rate are passed.
C4_LateRateBand ==
    AppendedBy("extrapolate_late") =>
        LET last == BasisRow(1)
            second_last == BasisRow(2)
            projection == LineAt(call.days, last, last.discount_rate,
                                 second_last, second_last.discount_rate)
            rate == Synthesized.discount_rate
        IN  /\ TwoHighest(call.basis[1], call.basis[2])
            /\ Between(rate, Zero, OneFifth)
            /\ Gt(projection, OneFifth) => rate = OneFifth
            /\ Lt(projection, Zero) => rate = Zero
            /\ Between(projection, Zero, OneFifth) => rate = projection

C4_Witness ==
    /\ AppendedBy("extrapolate_late")
    /\ "max_rate" \in DOMAIN call.kwargs
    /\ Gt(LineAt(call.days, BasisRow(1), BasisRow(1).discount_rate,
                 BasisRow(2), BasisRow(2).discount_rate), OneFifth)
    /\ Gt(call.kwargs.max_rate, Zero)
    /\ Lt(call.kwargs.max_rate, OneFifth)
    /\ Synthesized.discount_rate = OneFifth

\* Rows i and j are the two lowest-days rows of the table passed.
TwoLowest(i, j) ==
    /\ i # j
    /\ \A k \in Index(call.df) : call.df[i].days <= call.df[k].days
    /\ \A k \in Index(call.df) \ {i} : call.df[j].days <= call.df[k].days

\* v is first's value x less (first.days - days) times the slope
\* (y - x) / (second.days - first.days), or 0 when that is negative.
FlooredAtZero(v, first, x, second, y) ==
    LET slope == DivInt(Sub(y, x), second.days - first.days)
        projection == Sub(x, Mul(FromInt(first.days - call.days), slope))
    IN  /\ ~Lt(v, Zero)
        /\ Lt(projection, Zero) => v = Zero
        /\ (~IsNaN(projection) /\ ~Lt(projection, Zero)) => v = projection

\* C5: the rate of a row appended by extrapolate_early is the line through
\* the two lowest-days rows read at the target, or 0 when that is negative;
\* reference_price and forward_ratio, where both rows have them, likewise.
C5_EarlyFloor ==
    AppendedBy("extrapolate_early") =>
        LET first == BasisRow(1)
            second == BasisRow(2)
        IN  /\ TwoLowest(call.basis[1], call.basis[2])
            /\ FlooredAtZero(Synthesized.discount_rate,
                             first, first.discount_rate,
                             second, second.discount_rate)
            /\ \A c \in columns :
                (~IsNaN(Cell(first, c)) /\ ~IsNaN(Cell(second, c))) =>
                    FlooredAtZero(Cell(Synthesized, c),
                                  first, Cell(first, c), second, Cell(second, c))

C5_Witness ==
    /\ AppendedBy("extrapolate_early")
    /\ Gt(Synthesized.discount_rate, OneFifth)
    /\ "reference_price" \in columns
    /\ BasisRow(1).reference_price = FromInt(10)
    /\ BasisRow(2).reference_price = FromInt(100)
    /\ BasisRow(2).days - BasisRow(1).days < BasisRow(1).days - call.days
    /\ Synthesized.reference_price = Zero

\* C6: reference_price and forward_ratio of a row appended by
\* extrapolate_late, where both anchor rows have them, are the greater of
\* the highest-days row's value and the line through the two anchors read
\* at the target, so never below the highest-days row's value.
C6_LateFloor ==
    AppendedBy("extrapolate_late") =>
        LET last == BasisRow(1)
            second_last == BasisRow(2)
        IN  \A c \in columns :
                (~IsNaN(Cell(last, c)) /\ ~IsNaN(Cell(second_last, c))) =>
                    LET projection == LineAt(call.days, last, Cell(last, c),
                                             second_last, Cell(second_last, c))
                        v == Cell(Synthesized, c)
                    IN  /\ TwoHighest(call.basis[1], call.basis[2])
                        /\ ~Lt(v, Cell(last, c))
                        /\ Gt(projection, Cell(last, c)) => v = projection
                        /\ ~Gt(projection, Cell(last, c)) => v = Cell(last, c)

C6_Witness ==
    /\ AppendedBy("extrapolate_late")
    /\ "reference_price" \in columns
    /\ BasisRow(1).reference_price = FromInt(10)
    /\ BasisRow(2).reference_price = FromInt(100)
    /\ call.days > BasisRow(1).days
    /\ Synthesized.reference_price = FromInt(10)

\* C7: a row appended by any of the three operations has no value for
\* reference_price (forward_ratio) unless both basis rows have one.
C7_NoValueFromNull ==
    call.result = "appended" =>
        \A c \in OptionalColumns :
            (c \notin columns \/ IsNaN(Cell(BasisRow(1), c))
                \/ IsNaN(Cell(BasisRow(2), c)))
            => IsNaN(Cell(Synthesized, c))

\* C8: a row appended by interpolate_rate at target d has days d, method
\* "interpolated" and the rate b.rate + (d - b.days) / (a.days - b.days) *
\* (a.rate - b.rate), b a row of the greatest days below d and a a row of
\* the least days above d, whether observed or appended by an earlier call.
C8_Interpolated ==
    AppendedBy("interpolate_rate") =>
        LET b == BasisRow(1)
            a == BasisRow(2)
            d == call.days
        IN  /\ Synthesized.days = d
            /\ Synthesized.method = "interpolated"
            /\ b.days < d
            /\ a.days > d
            /\ \A i \in Index(call.df) :
                   call.df[i].days <= b.days \/ call.df[i].days >= a.days
                       \/ call.df[i].days = d
            /\ Synthesized.discount_rate =
                   Add(b.discount_rate,
                       Mul(DivInt(FromInt(d - b.days), a.days - b.days),
                           Sub(a.discount_rate, b.discount_rate)))

C8_Witness ==
    /\ AppendedBy("interpolate_rate")
    /\ BasisRow(1).method = "extrapolated"
    /\ BasisRow(2).method = "observed"
    /\ \E i \in Index(call.df) : call.df[i].days < BasisRow(1).days
    /\ BasisRow(1).discount_rate # BasisRow(2).discount_rate

\* C9: the days of the rows of the table are pairwise distinct, and the two
\* anchor rows of an extrapolation differ in days.
C9_DaysDistinct ==
    /\ \A i, j \in Index(df) : i # j => df[i].days # df[j].days
    /\ (call.op \in Extrapolators /\ call.result = "appended")
       => BasisRow(1).days # BasisRow(2).days

\* The days part of C10: when interpolate_rate appends, before.days < d <
\* after.days, the days range is at least 2 and the fraction is strictly
\* between 0 and 1, also when the table has days twice; and the rate is
\* between the neighbours' rates when those are finite.
InterpolationRange ==
    AppendedBy("interpolate_rate") =>
        LET before == BasisRow(1)
            after == BasisRow(2)
            d == call.days
        IN  /\ before.days < d
            /\ d < after.days
            /\ after.days - before.days >= 2
            /\ 0 < d - before.days
            /\ d - before.days < after.days - before.days
            /\ (IsFinite(before.discount_rate) /\ IsFinite(after.discount_rate))
               => Between(Synthesized.discount_rate,
                          before.discount_rate, after.discount_rate)

\* C10: when interpolate_rate appends, before.days < d < after.days, so
\* the days range is at least 2, the fraction is strictly between 0 and 1
\* and the rate is between the neighbours' rates, bounds included.
C10_InterpolationWellDefined ==
    AppendedBy("interpolate_rate") =>
        LET before == BasisRow(1)
            after == BasisRow(2)
            d == call.days
        IN  /\ before.days < d
            /\ d < after.days
            /\ after.days - before.days >= 2
            /\ 0 < d - before.days
            /\ d - before.days < after.days - before.days
            /\ Between(Synthesized.discount_rate,
                       before.discount_rate, after.discount_rate)

============================================================================
